---- MODULE Spec2Model ----
(***************************************************************************)
(* Model of src/src/main.rs: the orbit simulation (force model, RK4 step,  *)
(* rolling state history, zero-thrust lookahead sweep) and the per-frame   *)
(* system that drives it.                                                  *)
(*                                                                         *)
(* Arithmetic.  `Precision` is f64 in the source.  The model keeps the     *)
(* structure of binary floating point: normalised significand, exponent,   *)
(* round to nearest even, NaN, the two infinities and the two zeros with   *)
(* the IEEE rules (0/0, x/0, inf*0, inf-inf, the sign of a zero result),   *)
(* and the exponent range of f64: a result of 2^1024 or more is an         *)
(* infinity, a result below 2^-1022 is rounded to a multiple of 2^-1074    *)
(* and may be zero.  It carries MantBits significand bits instead of 53,   *)
(* so numeric results agree with the source only to about MantBits bits.   *)
(***************************************************************************)
EXTENDS Integers, Sequences, FiniteSets, TLC

\* Significand width of the modelled Precision (53 for the f64 of the source).
MantBits == 12
\* History capacity and lookahead length.  The source sets 21 (main.rs:12) and
\* 2000 (main.rs:13); the model is checked at reduced sizes, and nothing in it
\* depends on the values beyond N_HISTORY >= 1.
N_HISTORY == 3
N_LOOKAHEAD == 3
\* Frames simulated, and Body entities in the world (add_body spawns one; the
\* system iterates over every Body the query returns).
MaxTicks == 4
NBodies == 2

----------------------------------------------------------------------------
(* Precision values *)

\* f64 and f32: significand width, and the exponent range of the normal
\* values (2^-1022 <= |x| < 2^1024, and 2^-126 <= |x| < 2^128)
F64Bits == 53
F64EMax == 1024
F64EMin == -1022
F32Bits == 24
F32EMax == 128
F32EMin == -126

\* The two formats as the model carries them: significand bits kept, the
\* range of the normal values, and the exponent of the least subnormal
\* (2^-1074 and 2^-149).  A value of either is m * 2^e with m of MantBits bits.
F64 == [bits |-> MantBits, top |-> F64EMax, emin |-> F64EMin,
        quantum |-> F64EMin - (F64Bits - 1)]
F32 == [bits |-> IF MantBits < F32Bits THEN MantBits ELSE F32Bits,
        top |-> F32EMax, emin |-> F32EMin,
        quantum |-> F32EMin - (F32Bits - 1)]

NaN == [k |-> "nan", m |-> 0, e |-> 0]
Inf(sgn) == [k |-> "inf", m |-> sgn, e |-> 0]
Fin(m, e) == [k |-> "fin", m |-> m, e |-> e]
\* 0.0 and -0.0
Zero == Fin(0, 0)
NegZero == [k |-> "fin", m |-> 0, e |-> 0, neg |-> TRUE]
SignedZero(sgn) == IF sgn < 0 THEN NegZero ELSE Zero

Abs(n) == IF n < 0 THEN -n ELSE n
Sign(n) == IF n < 0 THEN -1 ELSE IF n > 0 THEN 1 ELSE 0

RECURSIVE BitLen(_)
BitLen(a) == IF a = 0 THEN 0 ELSE 1 + BitLen(a \div 2)

\* a / 2^s rounded to nearest, ties to even (a >= 0, s >= 1)
RoundShift(a, s) ==
    LET up(q, r, h) == IF r > h \/ (r = h /\ q % 2 = 1) THEN q + 1 ELSE q
    IN  up(a \div (2^s), a % (2^s), 2^(s - 1))

\* The value m * 2^e of format fmt, m a full significand: an infinity above
\* the range, marked subnormal below the normal range
Classify(fmt, m, e) ==
    IF e > fmt.top - MantBits THEN Inf(Sign(m))
    ELSE IF e < fmt.emin - (MantBits - 1)
    THEN [k |-> "subnormal", m |-> m, e |-> e]
    ELSE Fin(m, e)

\* The value of format fmt nearest to m * 2^e: fmt.bits significand bits, or
\* as many as the quantum 2^fmt.quantum leaves.  n is the bit length of |m|,
\* qe the exponent of the result's last place, r the significand rounded to it.
RoundTo(fmt, m, e) ==
    LET placed(r, nr, qe) ==
            IF r = 0 THEN SignedZero(Sign(m))
            ELSE IF nr > MantBits
            THEN Classify(fmt, Sign(m) * 2^(MantBits - 1), qe + 1)
            ELSE Classify(fmt, Sign(m) * r * 2^(MantBits - nr),
                          qe - (MantBits - nr))
        rounded(r, qe) == placed(r, BitLen(r), qe)
        at(a, n, qe) ==
            IF qe <= e
            THEN Classify(fmt, m * 2^(MantBits - n), e + n - MantBits)
            ELSE rounded(IF qe - e > n THEN 0 ELSE RoundShift(a, qe - e), qe)
        sized(a, n) ==
            at(a, n, IF e + n - fmt.bits < fmt.quantum THEN fmt.quantum
                     ELSE e + n - fmt.bits)
        measured(a) == sized(a, BitLen(a))
    IN  IF m = 0 THEN Zero ELSE measured(Abs(m))

\* The Precision value nearest to m * 2^e
Norm(m, e) == RoundTo(F64, m, e)

FromInt(n) == Norm(n, 0)

IsZero(a) == a.k = "fin" /\ a.m = 0

\* the sign bit of a value that is not NaN
Negative(a) == IF IsZero(a) THEN "neg" \in DOMAIN a ELSE a.m < 0
SignOf(a) == IF Negative(a) THEN -1 ELSE 1

fneg(a) ==
    IF a.k = "nan" THEN NaN
    ELSE IF IsZero(a) THEN SignedZero(-SignOf(a))
    ELSE [a EXCEPT !.m = -a.m]

fmul(a, b) ==
    IF a.k = "nan" \/ b.k = "nan" THEN NaN
    ELSE IF a.k = "inf" \/ b.k = "inf"
         THEN IF IsZero(a) \/ IsZero(b) THEN NaN
              ELSE Inf(SignOf(a) * SignOf(b))
    ELSE IF IsZero(a) \/ IsZero(b) THEN SignedZero(SignOf(a) * SignOf(b))
    ELSE Norm(a.m * b.m, a.e + b.e)

fadd(a, b) ==
    IF a.k = "nan" \/ b.k = "nan" THEN NaN
    ELSE IF a.k = "inf"
         THEN IF b.k = "inf" /\ b.m # a.m THEN NaN ELSE a
    ELSE IF b.k = "inf" THEN b
    ELSE IF IsZero(a) /\ IsZero(b)
         THEN IF Negative(a) /\ Negative(b) THEN NegZero ELSE Zero
    ELSE IF IsZero(a) THEN b
    ELSE IF IsZero(b) THEN a
    ELSE LET hi == IF a.e >= b.e THEN a ELSE b
             lo == IF a.e >= b.e THEN b ELSE a
             d  == hi.e - lo.e
         IN  IF d > MantBits + 1 THEN hi
             ELSE Norm(hi.m * 2^d + lo.m, lo.e)

fdiv(a, b) ==
    IF a.k = "nan" \/ b.k = "nan" THEN NaN
    ELSE IF a.k = "inf"
         THEN IF b.k = "inf" THEN NaN ELSE Inf(SignOf(a) * SignOf(b))
    ELSE IF b.k = "inf" THEN SignedZero(SignOf(a) * SignOf(b))
    ELSE IF IsZero(b)
         THEN IF IsZero(a) THEN NaN ELSE Inf(SignOf(a) * SignOf(b))
    ELSE IF IsZero(a) THEN SignedZero(SignOf(a) * SignOf(b))
    ELSE LET num == Abs(a.m) * 2^(MantBits + 2)
             den == Abs(b.m)
             q   == num \div den
             st  == IF num % den = 0 THEN 0 ELSE 1
         IN  Norm(Sign(a.m) * Sign(b.m) * (2 * q + st),
                  a.e - b.e - (MantBits + 2) - 1)

\* floor(sqrt(n)), one result bit per level, from bit b down
RECURSIVE ISqrtBits(_, _, _)
ISqrtBits(n, b, acc) ==
    IF b < 0 THEN acc
    ELSE LET t == acc + 2^b
         IN  ISqrtBits(n, b - 1, IF t * t <= n THEN t ELSE acc)

fsqrt(a) ==
    IF a.k = "nan" THEN NaN
    ELSE IF IsZero(a) THEN a
    ELSE IF a.m < 0 THEN NaN
    ELSE IF a.k = "inf" THEN a
    ELSE LET sh == IF (a.e - (MantBits + 2)) % 2 = 0 THEN MantBits + 2
                   ELSE MantBits + 3
             n  == a.m * 2^sh
             s  == ISqrtBits(n, MantBits + 2, 0)
             st == IF s * s = n THEN 0 ELSE 1
         IN  Norm(2 * s + st, ((a.e - sh) \div 2) - 1)

\* `as f32`: round to nearest; NaN, infinities and zeros keep their kind and
\* sign, a magnitude of 2^128 or more becomes an infinity, one below 2^-126
\* is rounded to a multiple of 2^-149
as_f32(a) ==
    IF a.k = "nan" \/ a.k = "inf" \/ IsZero(a) THEN a
    ELSE RoundTo(F32, a.m, a.e)

----------------------------------------------------------------------------
(* Constants of the program (main.rs:8-14) *)

E5 == FromInt(100000)
E7 == FromInt(10000000)

\* 6.6743e-11
G == fdiv(FromInt(66743), fmul(E5, fmul(E5, E5)))
\* 5.972e24
MASS_EARTH == fmul(FromInt(5972), fmul(E7, fmul(E7, E7)))
\* 6.371e6
EARTH_RADIUS == FromInt(6371000)
DT == FromInt(10)
THRUST == FromInt(2)

\* The literals 0.5, 2.0 and 6.0 of rk4
Half == fdiv(FromInt(1), FromInt(2))
Two == FromInt(2)
Six == FromInt(6)

----------------------------------------------------------------------------
(* State, Forcing and their operators *)

State_new(x0, y0, vx0, vy0) == [x |-> x0, y |-> y0, vx |-> vx0, vy |-> vy0]

\* impl ops::Add<&Forcing> for &State
add_state_forcing(self, rhs) ==
    [x  |-> fadd(self.x, rhs.vx),
     y  |-> fadd(self.y, rhs.vy),
     vx |-> fadd(self.vx, rhs.ax),
     vy |-> fadd(self.vy, rhs.ay)]

\* impl ops::Add<&Forcing> for &Forcing
add_forcing(self, rhs) ==
    [ax |-> fadd(self.ax, rhs.ax),
     ay |-> fadd(self.ay, rhs.ay),
     vx |-> fadd(self.vx, rhs.vx),
     vy |-> fadd(self.vy, rhs.vy)]

\* impl ops::Mul<&Forcing> for Precision
mul_forcing(self, rhs) ==
    [ax |-> fmul(self, rhs.ax),
     ay |-> fmul(self, rhs.ay),
     vx |-> fmul(self, rhs.vx),
     vy |-> fmul(self, rhs.vy)]

\* The force model.  No branch of it signals an error: every f64 operation
\* returns a value (possibly NaN or an infinity).  The locals of the source
\* (r, v, f, thrustx, thrusty, ax, ay) are bound as parameters, in its order.
forcing(state, thrust) ==
    LET result(ax, ay) ==
            [ax |-> ax, ay |-> ay, vx |-> state.vx, vy |-> state.vy]
        with_f(v, f) ==
            result(fadd(fmul(f, state.x),
                        fdiv(fmul(fmul(FromInt(thrust), THRUST), state.vx), v)),
                   fadd(fmul(f, state.y),
                        fdiv(fmul(fmul(FromInt(thrust), THRUST), state.vy), v)))
        with_rv(r, v) ==
            with_f(v, fdiv(fmul(fneg(G), MASS_EARTH), fmul(fmul(r, r), r)))
    IN  with_rv(fsqrt(fadd(fmul(state.x, state.x), fmul(state.y, state.y))),
                fsqrt(fadd(fmul(state.vx, state.vx), fmul(state.vy, state.vy))))

\* One RK4 step; k1..k4 are bound as parameters, in the order of the source.
rk4(state, thrust) ==
    LET with_k4(k1, k2, k3, k4) ==
            add_state_forcing(state,
                mul_forcing(fdiv(DT, Six),
                    add_forcing(k1,
                        add_forcing(mul_forcing(Two, k2),
                            add_forcing(mul_forcing(Two, k3), k4)))))
        with_k3(k1, k2, k3) ==
            with_k4(k1, k2, k3,
                forcing(add_state_forcing(state, mul_forcing(DT, k3)), thrust))
        with_k2(k1, k2) ==
            with_k3(k1, k2,
                forcing(add_state_forcing(state, mul_forcing(fmul(Half, DT), k2)), thrust))
        with_k1(k1) ==
            with_k2(k1,
                forcing(add_state_forcing(state, mul_forcing(fmul(Half, DT), k1)), thrust))
    IN  with_k1(forcing(state, thrust))

----------------------------------------------------------------------------
(* StateHistory and Body *)

None == << >>
Some(v) == << v >>

\* slice::rotate_right(k) on a 1-indexed sequence
rotate_right(a, k) ==
    [i \in 1..Len(a) |-> a[((i - 1 - k) % Len(a)) + 1]]

\* Variant: the slots start as zero-valued states instead of absent ones.
StateHistory_zeroed == [i \in 1..N_HISTORY |-> Some(State_new(Zero, Zero, Zero, Zero))]

StateHistory_new == [i \in 1..N_HISTORY |-> None]

\* Variant: the buffer is rotated the other way before slot 0 is written.
push_left(hist, state) ==
    [rotate_right(hist, Len(hist) - 1) EXCEPT ![1] = Some(state)]

\* StateHistory::push
push(hist, state) ==
    [rotate_right(hist, 1) EXCEPT ![1] = Some(state)]

Body_new(id, mass, x0, y0, vx0, vy0) ==
    [current_state |-> State_new(x0, y0, vx0, vy0),
     history       |-> StateHistory_new,
     mass          |-> mass,
     id            |-> id]

\* Body::update_history
update_history(body) ==
    [body EXCEPT !.history = push(body.history, body.current_state)]

\* add_body: the ISS orbit, 10% faster than circular.  Body id stands at
\* id times the ISS altitude, so that add_body's own body is id 1.
add_body(id) ==
    Body_new(id, FromInt(1),
             Zero,
             fadd(EARTH_RADIUS, FromInt(408000 * id)),
             fmul(fdiv(FromInt(11), FromInt(10)), FromInt(7660)),
             Zero)

----------------------------------------------------------------------------
(* The state *)

VARIABLES
    bodies,       \* the Body components of the world, by entity
    keyboard,     \* Res<Input<KeyCode>> of the running frame: Up and Down
    gizmos,       \* the circles drawn in the current frame, in call order
    pc,           \* position in `system`
    todo,         \* bodies the query iterator has yet to yield
    cur,          \* the body of the running loop pass
    thrust,       \* locals of the loop pass
    body_radius,
    new_state,
    i,            \* lookahead loop counter
    ticks,        \* frames started
    pushed,       \* history: every state pushed, per body, oldest first
    frame0,       \* history: the bodies as the frame found them
    sweep,        \* history: the states of each body's latest lookahead sweep
    coast,        \* history: the forecast made before the body's current run of
                  \*          zero-thrust frames, and the length of that run
    probe         \* the force model applied to a chosen input (SpecForcing)

vars == <<bodies, keyboard, gizmos, pc, todo, cur, thrust, body_radius,
          new_state, i, ticks, pushed, frame0, sweep, coast, probe>>

sysvars == <<bodies, keyboard, gizmos, pc, todo, cur, thrust, body_radius,
             new_state, i, ticks, pushed, frame0, sweep, coast>>

----------------
(* The pieces of `system` *)

\* Variant: Down is tested before Up, so Up wins when both are pressed.
sample_thrust_up_last(kb) ==
    LET t0 == [thrust |-> 0, body_radius |-> 50000]
        t1 == IF kb.down THEN [thrust |-> -1, body_radius |-> 100000] ELSE t0
        t2 == IF kb.up THEN [thrust |-> 1, body_radius |-> 100000] ELSE t1
    IN  t2

\* lines 180-189: the thrust command and the body's drawn radius
sample_thrust(kb) ==
    LET t0 == [thrust |-> 0, body_radius |-> 50000]
        t1 == IF kb.up THEN [thrust |-> 1, body_radius |-> 100000] ELSE t0
        t2 == IF kb.down THEN [thrust |-> -1, body_radius |-> 100000] ELSE t1
    IN  t2

\* Variant: the step is computed but never assigned to body.current_state.
advance_stale(body, command) ==
    LET assign(ns) == [body |-> body, new_state |-> ns]
    IN  assign(rk4(body.current_state, command))

\* lines 191-193: advance the body; the local new_state holds a copy
advance(body, command) ==
    LET assign(ns) == [body |-> [body EXCEPT !.current_state = ns], new_state |-> ns]
    IN  assign(rk4(body.current_state, command))

\* Variant: the inclusive range 0..=N_LOOKAHEAD.
lookahead_more_inclusive(n) == n <= N_LOOKAHEAD

\* line 221: the range 0..N_LOOKAHEAD still has an element after i passes
lookahead_more(n) == n < N_LOOKAHEAD

\* Variant: the loop steps body.current_state itself instead of the local.
lookahead_step_in_place(body, ns) ==
    LET drawn(next) == [body |-> [body EXCEPT !.current_state = next],
                        new_state |-> next, marker |-> next]
    IN  drawn(rk4(ns, 0))

\* Variant: the loop passes the frame's thrust command to rk4.
lookahead_step_thrust(body, ns) ==
    LET drawn(next) == [body |-> body, new_state |-> next, marker |-> next]
    IN  drawn(rk4(ns, thrust))

\* Variant: the marker is drawn before the step, so the forecast starts at
\* the current state.
lookahead_step_from_current(body, ns) ==
    LET drawn(next) == [body |-> body, new_state |-> next, marker |-> ns]
    IN  drawn(rk4(ns, 0))

\* lines 222-230: one pass of the lookahead loop, on the local only; the
\* marker is drawn at the state just computed
lookahead_step(body, ns) ==
    LET drawn(next) == [body |-> body, new_state |-> next, marker |-> next]
    IN  drawn(rk4(ns, 0))

\* Variant: state and history live in one place shared by every entity.
store_shared(bs, b, body) ==
    [c \in DOMAIN bs |-> [bs[c] EXCEPT !.current_state = body.current_state,
                                       !.history = body.history]]

\* a write through the `&mut Body` the query yields for entity b
store(bs, b, body) == [bs EXCEPT ![b] = body]

\* gizmos.circle_2d: the call as recorded, its position a Vec2 of f32
circle_2d(call, of, x, y, radius, color) ==
    [call |-> call, of |-> of, at |-> <<x, y>>, radius |-> radius, color |-> color]

\* lines 207-218: one marker per present slot, in slot order
RECURSIVE history_markers(_, _, _)
history_markers(of, hist, slot) ==
    IF slot > Len(hist) THEN << >>
    ELSE (IF hist[slot] # None
          THEN << circle_2d("history", of, as_f32(hist[slot][1].x),
                            as_f32(hist[slot][1].y), 10000, "RED") >>
          ELSE << >>)
         \o history_markers(of, hist, slot + 1)

----------------------------------------------------------------------------------------------------------------------------------------
(* Initial state and actions *)

Entities == 1..NBodies
NoKeys == [up |-> FALSE, down |-> FALSE]
Keys == [up : BOOLEAN, down : BOOLEAN]
NoState == State_new(Zero, Zero, Zero, Zero)
ProbeOff == [stage |-> "off"]

InitSystem ==
    /\ bodies = [b \in Entities |-> add_body(b)]
    /\ keyboard = NoKeys
    /\ gizmos = << >>
    /\ pc = "frame"
    /\ todo = {}
    /\ cur = 0
    /\ thrust = 0
    /\ body_radius = 0
    /\ new_state = NoState
    /\ i = 0
    /\ ticks = 0
    /\ pushed = [b \in Entities |-> << >>]
    /\ frame0 = [b \in Entities |-> add_body(b)]
    /\ sweep = [b \in Entities |-> << >>]
    /\ coast = [b \in Entities |-> [fc |-> << >>, n |-> 0]]

Init == InitSystem /\ probe = ProbeOff

\* system is entered: the frame's keyboard state, the earth, the query
BeginFrame ==
    /\ pc = "frame"
    /\ ticks < MaxTicks
    /\ keyboard' \in Keys
    /\ gizmos' = << circle_2d("earth", 0, Zero, Zero, 6371000, "BLUE") >>
    /\ todo' = Entities
    /\ pc' = "loop"
    /\ ticks' = ticks + 1
    /\ frame0' = bodies
    /\ UNCHANGED <<bodies, cur, thrust, body_radius, new_state, i, pushed,
                   sweep, coast, probe>>

\* lines 178-193 for the body the iterator yields next
Advance(b) ==
    /\ pc = "loop"
    /\ b \in todo
    /\ \E c \in {sample_thrust(keyboard)} :
         \E a \in {advance(bodies[b], c.thrust)} :
           /\ thrust' = c.thrust
           /\ body_radius' = c.body_radius
           /\ bodies' = store(bodies, b, a.body)
           /\ new_state' = a.new_state
    /\ cur' = b
    /\ todo' = todo \ {b}
    /\ pc' = "advanced"
    /\ UNCHANGED <<keyboard, gizmos, i, ticks, pushed, frame0, sweep, coast, probe>>

\* line 195
UpdateHistory ==
    /\ pc = "advanced"
    /\ bodies' = store(bodies, cur, update_history(bodies[cur]))
    /\ pushed' = [pushed EXCEPT ![cur] = Append(@, bodies[cur].current_state)]
    /\ pc' = "recorded"
    /\ UNCHANGED <<keyboard, gizmos, todo, cur, thrust, body_radius, new_state,
                   i, ticks, frame0, sweep, coast, probe>>

\* lines 197-218: the body and its trail
Draw ==
    /\ pc = "recorded"
    /\ gizmos' = gizmos
           \o << circle_2d("body", cur, as_f32(bodies[cur].current_state.x),
                           as_f32(bodies[cur].current_state.y), body_radius,
                           "RED") >>
           \o history_markers(cur, bodies[cur].history, 1)
    /\ i' = 0
    /\ sweep' = [sweep EXCEPT ![cur] = << >>]
    /\ pc' = "lookahead"
    /\ UNCHANGED <<bodies, keyboard, todo, cur, thrust, body_radius, new_state,
                   ticks, pushed, frame0, coast, probe>>

\* lines 221-231: one pass of the lookahead loop
LookaheadStep ==
    /\ pc = "lookahead"
    /\ lookahead_more(i)
    /\ \E r \in {lookahead_step(bodies[cur], new_state)} :
           /\ bodies' = store(bodies, cur, r.body)
           /\ new_state' = r.new_state
           /\ gizmos' = Append(gizmos,
                  circle_2d("lookahead", cur, as_f32(r.marker.x),
                            as_f32(r.marker.y), 10000, "GREEN"))
           /\ sweep' = [sweep EXCEPT ![cur] = Append(@, r.marker)]
    /\ i' = i + 1
    /\ UNCHANGED <<keyboard, pc, todo, cur, thrust, body_radius, ticks, pushed,
                   frame0, coast, probe>>

\* the lookahead loop is exhausted: the loop pass for this body ends
EndBody ==
    /\ pc = "lookahead"
    /\ ~lookahead_more(i)
    /\ coast' = [coast EXCEPT ![cur] =
                    IF thrust # 0 \/ coast[cur].fc = << >>
                    THEN [fc |-> sweep[cur], n |-> 0]
                    ELSE [fc |-> coast[cur].fc, n |-> coast[cur].n + 1]]
    /\ pc' = "loop"
    /\ UNCHANGED <<bodies, keyboard, gizmos, todo, cur, thrust, body_radius,
                   new_state, i, ticks, pushed, frame0, sweep, probe>>

\* the iterator is exhausted: system returns and its locals are gone
EndFrame ==
    /\ pc = "loop"
    /\ todo = {}
    /\ pc' = "frame"
    /\ keyboard' = NoKeys
    /\ cur' = 0
    /\ thrust' = 0
    /\ body_radius' = 0
    /\ new_state' = NoState
    /\ i' = 0
    /\ UNCHANGED <<bodies, gizmos, todo, ticks, pushed, frame0, sweep, coast, probe>>

Next ==
    \/ BeginFrame
    \/ \E b \in Entities : Advance(b)
    \/ UpdateHistory
    \/ Draw
    \/ LookaheadStep
    \/ EndBody
    \/ EndFrame

Spec == Init /\ [][Next]_vars

----------------------------------------------------------------------------
(* The force model on chosen inputs: forcing, then the RK4 step built on   *)
(* it, then the push of the result into a history.                         *)

\* Zero, orbital magnitudes of both signs, and magnitudes whose squares and
\* cubes leave the exponent range (2^-589 and 2^611)
ProbePositions == {Zero, FromInt(6779000), FromInt(-6779000), Norm(1, -589)}
ProbeVelocities == {Zero, FromInt(8426), FromInt(-8426), Norm(1, -589),
                    Norm(1, 611)}
ProbeInputs ==
    {[stage |-> "input", state |-> State_new(x, y, vx, vy), thrust |-> t,
      out |-> None, next |-> None, history |-> StateHistory_new] :
        x \in ProbePositions, y \in ProbePositions,
        vx \in ProbeVelocities, vy \in ProbeVelocities, t \in {-1, 0, 1}}

InitForcing == InitSystem /\ probe \in ProbeInputs

EvalForcing ==
    /\ probe.stage = "input"
    /\ probe' = [probe EXCEPT !.stage = "forced",
                              !.out = Some(forcing(probe.state, probe.thrust))]
    /\ UNCHANGED sysvars

Integrate ==
    /\ probe.stage = "forced"
    /\ probe' = [probe EXCEPT !.stage = "integrated",
                              !.next = Some(rk4(probe.state, probe.thrust))]
    /\ UNCHANGED sysvars

Record ==
    /\ probe.stage = "integrated"
    /\ probe' = [probe EXCEPT !.stage = "recorded",
                              !.history = push(probe.history, probe.next[1])]
    /\ UNCHANGED sysvars

NextForcing == EvalForcing \/ Integrate \/ Record

SpecForcing == InitForcing /\ [][NextForcing]_vars

----------------------------------------------------------------------------
(* Properties *)

Min(a, b) == IF a <= b THEN a ELSE b
Last(q) == q[Len(q)]

\* Body b has been through its loop pass of the latest frame.
Processed(b) ==
    /\ ticks > 0
    /\ b \notin todo
    /\ ~(b = cur /\ pc \in {"advanced", "recorded", "lookahead"})

\* The frame's trail and forecast markers of body b, in drawing order.
Trail(b) == SelectSeq(gizmos, LAMBDA g : g.call = "history" /\ g.of = b)
Forecast(b) == SelectSeq(gizmos, LAMBDA g : g.call = "lookahead" /\ g.of = b)

Present(hist) == {k \in 1..Len(hist) : hist[k] # None}

\* C1: after M > N_HISTORY pushes the buffer holds N_HISTORY present entries
\* and slot i (from 0) is the (M-i)-th pushed state: the last N_HISTORY
\* pushed states, newest first; older ones are gone.
C1_LastPushedNewestFirst ==
    \A b \in Entities :
        LET M == Len(pushed[b])
        IN  M > N_HISTORY =>
                /\ Len(bodies[b].history) = N_HISTORY
                /\ \A k \in 0..(N_HISTORY - 1) :
                       bodies[b].history[k + 1] = Some(pushed[b][M - k])

C1_Witness ==
    \E b \in Entities :
        /\ Len(pushed[b]) = N_HISTORY + 1
        /\ bodies[b].history[1] = Some(pushed[b][N_HISTORY + 1])
        /\ bodies[b].history[N_HISTORY] = Some(pushed[b][2])

\* C2: no pass of the lookahead loop, nor its exit, changes any body: while
\* the loop runs, current_state and history stay as the advance and the push
\* left them; only the local new_state moves.
C2_SweepLeavesBody == [][(pc = "lookahead") => (bodies' = bodies)]_vars

C2_Witness ==
    /\ pc = "lookahead"
    /\ i = N_LOOKAHEAD
    /\ new_state # bodies[cur].current_state
    /\ bodies[cur].history[1] = Some(bodies[cur].current_state)

Degenerate(state, command) ==
    \/ IsZero(state.x) /\ IsZero(state.y)
    \/ IsZero(state.vx) /\ IsZero(state.vy) /\ command # 0

\* C3: on a degenerate input (position (0,0), or zero velocity under a
\* non-zero thrust command) the force model signals an error: it returns no
\* derivative, so nothing is integrated or pushed.
C3_FailFast ==
    Degenerate(probe.state, probe.thrust) => probe.stage = "input"

SweepCounts ==
    /\ pc = "lookahead" =>
           /\ i <= N_LOOKAHEAD
           /\ Len(Forecast(cur)) = i
           /\ Len(sweep[cur]) = i
    /\ \A b \in Entities :
           Processed(b) => Len(Forecast(b)) = N_LOOKAHEAD

SweepAdvances ==
    pc = "lookahead" =>
        \/ i < N_LOOKAHEAD /\ i' = i + 1 /\ pc' = "lookahead"
        \/ i = N_LOOKAHEAD /\ i' = i /\ pc' = "loop"

\* C4: the sweep of a body draws one forecast marker per pass; every step
\* taken in the loop either raises the pass count by one, below N_LOOKAHEAD,
\* or leaves the loop, at exactly N_LOOKAHEAD; the body then has exactly
\* N_LOOKAHEAD forecast markers, whatever the thrust command.
C4_SweepLength == []SweepCounts /\ [][SweepAdvances]_vars

C4_Witness ==
    /\ pc = "loop"
    /\ todo = {}
    /\ thrust # 0
    /\ \A b \in Entities : Len(Forecast(b)) = N_LOOKAHEAD

\* C5: with k < N_HISTORY pushes made, slots 0..k-1 hold the pushed states
\* newest first and every other slot is absent; the trail drawn for a body
\* has min(k, N_HISTORY) markers.
C5_AbsentUntilPushed ==
    \A b \in Entities :
        LET k == Len(pushed[b])
        IN  /\ k < N_HISTORY =>
                   \A n \in 1..N_HISTORY :
                       bodies[b].history[n] =
                           IF n <= k THEN Some(pushed[b][k - n + 1]) ELSE None
            /\ Processed(b) => Len(Trail(b)) = Min(k, N_HISTORY)

C5_Witness ==
    \E b \in Entities :
        /\ Processed(b)
        /\ Len(pushed[b]) = N_HISTORY - 1
        /\ Len(Trail(b)) = N_HISTORY - 1
        /\ bodies[b].history[N_HISTORY] = None

\* C6: within a frame a body is untouched until its own loop pass and
\* untouched after it, and at the end of the frame every body is its own
\* state at the start of the frame advanced by the frame's thrust command
\* and pushed once, whatever the order the bodies were visited in.
C6_BodiesIndependent ==
    pc # "frame" =>
        \A b \in Entities :
            /\ b \in todo => bodies[b] = frame0[b]
            /\ Processed(b) =>
                   /\ bodies[b].current_state = Last(pushed[b])
                   /\ bodies[b].history =
                          push(frame0[b].history, bodies[b].current_state)
            /\ (pc = "loop" /\ todo = {}) =>
                   bodies[b] =
                       update_history(
                           advance(frame0[b], sample_thrust(keyboard).thrust).body)

C6_Witness ==
    /\ NBodies >= 2
    /\ cur = 1
    /\ pc = "loop"
    /\ todo = {}
    /\ ticks >= 2
    /\ thrust # 0
    /\ bodies[1].current_state # bodies[2].current_state

\* C7: the sampled command is -1 when Down is pressed (with or without Up),
\* +1 when only Up is pressed and 0 when neither is.
C7_ThrustCommand ==
    pc \in {"advanced", "recorded", "lookahead"} =>
        /\ thrust \in {-1, 0, 1}
        /\ (keyboard.down) => thrust = -1
        /\ (keyboard.up /\ ~keyboard.down) => thrust = 1
        /\ (~keyboard.up /\ ~keyboard.down) => thrust = 0

C7_Witness ==
    /\ pc = "advanced"
    /\ keyboard.up
    /\ keyboard.down
    /\ thrust = -1

\* C8: every forecast state is one zero-thrust RK4 step past the one before
\* it, the first being one such step past the advanced current_state; the
\* frame's thrust command plays no part.
C8_ForecastCoasts ==
    (pc = "lookahead" /\ i >= 1) =>
        /\ sweep[cur][i] =
               rk4(IF i = 1 THEN bodies[cur].current_state ELSE sweep[cur][i - 1], 0)
        /\ Forecast(cur)[i].at =
               <<as_f32(sweep[cur][i].x), as_f32(sweep[cur][i].y)>>

C8_Witness ==
    /\ pc = "lookahead"
    /\ i = N_LOOKAHEAD
    /\ thrust = 1
    /\ sweep[cur][1] # rk4(bodies[cur].current_state, 1)

\* C9: in a frame each body gets one RK4 step with the sampled command, then
\* one push of the new state, then its sweep; so after its pass slot 0 holds
\* current_state, t frames have made t pushes and left min(t, N_HISTORY)
\* entries, and the state the body was created with is not among them.
C9_TickOrder ==
    /\ pc = "advanced" =>
           /\ bodies[cur].current_state = rk4(frame0[cur].current_state, thrust)
           /\ Len(pushed[cur]) = ticks - 1
           /\ bodies[cur].history = frame0[cur].history
    /\ pc \in {"recorded", "lookahead"} =>
           /\ Len(pushed[cur]) = ticks
           /\ bodies[cur].history[1] = Some(bodies[cur].current_state)
    /\ \A b \in Entities :
           Processed(b) =>
               /\ bodies[b].history[1] = Some(bodies[b].current_state)
               /\ Len(pushed[b]) = ticks
               /\ Cardinality(Present(bodies[b].history)) = Min(ticks, N_HISTORY)
               /\ Len(sweep[b]) = N_LOOKAHEAD
               /\ \A k \in 1..N_HISTORY :
                      bodies[b].history[k] # Some(add_body(b).current_state)

C9_Witness ==
    /\ pc = "frame"
    /\ ticks = N_HISTORY + 1
    /\ \A b \in Entities :
           /\ bodies[b].history[1] = Some(bodies[b].current_state)
           /\ Cardinality(Present(bodies[b].history)) = N_HISTORY

\* C10: the forecast does not contain the current state, and a body that has
\* since been through j frames with command 0 (j at most N_LOOKAHEAD) stands
\* at the j-th state of the forecast made before them.
C10_ForecastMatchesCoasting ==
    \A b \in Entities :
        Processed(b) =>
            /\ sweep[b][1] # bodies[b].current_state
            /\ (coast[b].n >= 1 /\ coast[b].n <= Len(coast[b].fc)) =>
                   bodies[b].current_state = coast[b].fc[coast[b].n]

C10_Witness ==
    \E b \in Entities :
        /\ Processed(b)
        /\ coast[b].n = 2
        /\ bodies[b].current_state = coast[b].fc[2]
        /\ bodies[b].current_state # coast[b].fc[1]

====
